---- MODULE Spec2Model ----
(***************************************************************************)
(* State-machine model of prototype/snakemake_magic.py: the IPython magics *)
(* %snakemake, %%sinclude, %%sconfig, %_workflow and %_reset_workflow of   *)
(* class SnakemakeMagic.                                                   *)
(*                                                                         *)
(* The workflow engine (snakemake.workflow.Workflow, the argument parser,  *)
(* load_configfile) is an opaque collaborator: each of its calls either    *)
(* returns or raises, chosen nondeterministically, and an exception        *)
(* propagates out of the magic because the file has no try/except/finally. *)
(* One action is one whole magic invocation.                               *)
(*                                                                         *)
(* Program state:                                                          *)
(*   workflow       self.workflow (line 44), None or a session identity    *)
(*   rules          the names in workflow._rules, in order (lines 196-201) *)
(*   cells          tempfiles['cells'] (lines 45, 191)                     *)
(*   root           tempfiles['root'], by its session (line 64)            *)
(*   updated_rules  self.updated_rules (lines 46, 202, 178)                *)
(*   config         the keys of snakemake.workflow.config (line 223)       *)
(*   files          the staged files that exist (lines 190, 208, 219, 225) *)
(* Observation state:                                                      *)
(*   sessions, paths  sessions / temp files created so far, the source of  *)
(*                  fresh identities (lines 65, 190, 219)                  *)
(*   constructed    sessions constructed since the last reset              *)
(*   atReset        the names updated_rules held at the last reset, until  *)
(*                  an execute call is made                                *)
(*   last           what the latest magic did: the engine calls it made,   *)
(*                  the value it returned or that it raised                *)
(***************************************************************************)
EXTENDS Integers, Sequences, FiniteSets

VARIABLES workflow, rules, cells, root, updated_rules, config, files,
          sessions, paths, constructed, atReset, last

vars == <<workflow, rules, cells, root, updated_rules, config, files,
          sessions, paths, constructed, atReset, last>>

(* ------------------------------ bounds -------------------------------- *)
\* sessions that may be constructed in one behaviour
MaxSessions == 2
\* temp files that may be staged in one behaviour
MaxFiles == 2
\* rule definitions in one %%sinclude cell
MaxCell == 2
\* cap on the length of updated_rules (the code never bounds it)
MaxUpdated == 2

RuleNames == {"a", "b"}
ConfigKeys == {"k"}

\* greediness in tenths: -0.1, 0, 1.0, 1.1
GreedinessValues == {-1, 0, 10, 11}

\* the lists a line gives after -R: none, one rule, every rule
ForceRunLists == {{}, {"a"}, RuleNames}

\* how the engine answers check and execute in one %snakemake: check
\* raises; check returns and execute raises; execute returns True / False
Outcomes == {"check raises", "execute raises", "True", "False"}

(* ------------------------------ helpers ------------------------------- *)
Range(s) == {s[i] : i \in DOMAIN s}

SeqsUpTo(S, n) == UNION {[1..k -> S] : k \in 0..n}

RECURSIVE Without(_, _)
\* the sequence s with every occurrence of x removed, order kept
Without(s, x) ==
    IF s = <<>> THEN <<>>
    ELSE IF Head(s) = x THEN Without(Tail(s), x)
         ELSE <<Head(s)>> \o Without(Tail(s), x)

\* Python's None: the class attribute workflow = None of line 44, and an
\* absent value in an observation (session identities and paths start at 1)
None == 0

(* ------------------------- magic inputs ------------------------------- *)
\* What get_argument_parser().parse_args(shlex.split(line)) yields for a
\* line: valid = FALSE when parsing raises (argparse exits on a bad line);
\* forcerun is None (given = FALSE) or the list after -R (possibly empty);
\* greediness is None or the float after --greediness.
Lines ==
    {[valid |-> FALSE, forcerun |-> [given |-> FALSE, names |-> {}],
      greediness |-> [given |-> FALSE, value |-> 0]]}
    \cup
    {[valid |-> TRUE, forcerun |-> f, greediness |-> g] :
        f \in {[given |-> FALSE, names |-> {}]}
              \cup {[given |-> TRUE, names |-> n] : n \in ForceRunLists},
        g \in {[given |-> FALSE, value |-> 0]}
              \cup {[given |-> TRUE, value |-> v] : v \in GreedinessValues}}

\* A %%sinclude cell: parses = FALSE when snakemake.parser.parse raises on
\* it; names = the rule names get_rule_names yields, in text order.
Cells ==
    {[parses |-> FALSE, names |-> <<>>]}
    \cup {[parses |-> TRUE, names |-> n] : n \in SeqsUpTo(RuleNames, MaxCell)}

(* --------------------- pieces of the magics --------------------------- *)
\* line 75: if self.workflow is None
NoDataNever(wf) == FALSE
NoData(wf) == wf = None

\* lines 59-67: get_workflow.  n sessions exist so far; a new one gets the
\* fresh identity n + 1.
GetWorkflowAlways(wf, n) == [workflow |-> n + 1, made |-> TRUE]
GetWorkflow(wf, n) ==
    IF wf = None
    THEN [workflow |-> n + 1, made |-> TRUE]
    ELSE [workflow |-> wf, made |-> FALSE]

\* line 93: set(args.forcerun if args.forcerun is not None
\*              else [] + self.updated_rules)
\* the conditional expression binds weaker than +
ForceRun(f, updated) ==
    IF f.given THEN f.names ELSE {} \cup Range(updated)

\* lines 125-130: greediness is None, or 0 <= greediness <= 1.0
GreedinessOKNoUpper(g) == (~g.given) \/ (0 <= g.value)
GreedinessOK(g) == (~g.given) \/ (0 <= g.value /\ g.value <= 10)

\* lines 177-178: if success: del self.updated_rules[:]
AfterExecuteAlways(success, updated) == <<>>
AfterExecute(success, updated) == IF success THEN <<>> ELSE updated

\* line 180: return success
ReturnedTrue(success) == TRUE
Returned(success) == success

\* line 196: overwrite_first_rule = len(workflow._rules) == 0, evaluated on
\* the rules held before the loop of lines 200-202 (remaining = what that
\* loop leaves)
OverwriteAfterPop(held, remaining) == Len(remaining) = 0
OverwriteFirstRule(held, remaining) == Len(held) = 0

RECURSIVE PopRules(_, _)
\* lines 200-201: workflow._rules.pop(rule_name, None) for each name
PopRules(held, names) ==
    IF names = <<>> THEN held
    ELSE PopRules(Without(held, Head(names)), Tail(names))

\* line 202: self.updated_rules.append(rule_name) for each name
AppendUpdated(updated, names) == updated \o names

RECURSIVE CleanPrefix(_, _)
\* The engine's include defines the rules of the text in order and raises
\* on a name the session already holds: the number of leading names of
\* `names` it can define on top of `held`.
CleanPrefix(held, names) ==
    IF names = <<>> \/ Head(names) \in Range(held) THEN 0
    ELSE 1 + CleanPrefix(Append(held, Head(names)), Tail(names))

\* lines 233-235: self.workflow = None
ResetWorkflow(wf) == None

(* --------------------------- observations ----------------------------- *)
\* no --greediness seen: none given, or the line was never parsed
NoGreediness == [given |-> FALSE, value |-> 0]

\* cmd: the magic; parsed: parse_args (line 79) returned; greediness: the
\* args.greediness it yielded; raised: the magic ended by raising;
\* retKind / retBool / retNum: the value it returned; calls: the engine
\* calls it made, in order; staged: the temp file it wrote
Obs(cmd, parsed, greed, raised, retKind, retBool, retNum, calls, staged) ==
    [cmd |-> cmd, parsed |-> parsed, greediness |-> greed,
     raised |-> raised, retKind |-> retKind, retBool |-> retBool,
     retNum |-> retNum, calls |-> calls, staged |-> staged]

\* the observation of a magic that takes no argument line
Plain(cmd, raised, retKind, retBool, retNum, calls, staged) ==
    Obs(cmd, FALSE, NoGreediness, raised, retKind, retBool, retNum, calls,
        staged)

Init ==
    /\ workflow = None
    /\ rules = <<>>
    /\ cells = <<>>
    /\ root = None
    /\ updated_rules = <<>>
    /\ config = {}
    /\ files = {}
    /\ sessions = 0
    /\ paths = 0
    /\ constructed = 0
    /\ atReset = {}
    /\ last = Plain("none", FALSE, "none", FALSE, None, <<>>, None)

\* the effect of get_workflow (lines 59-67) on the session state, shared by
\* every magic that calls it; g is GetWorkflow's result
Session(g) ==
    /\ g.made => sessions < MaxSessions
    /\ workflow' = g.workflow
    /\ sessions' = IF g.made THEN sessions + 1 ELSE sessions
    /\ constructed' = IF g.made THEN constructed + 1 ELSE constructed
    /\ root' = IF g.made THEN g.workflow ELSE root

ConstructCalls(g) ==
    IF g.made THEN <<[op |-> "Workflow", session |-> g.workflow]>> ELSE <<>>

(* ------------------------------ magics -------------------------------- *)
\* lines 69-180: %snakemake line.  check / execute are engine calls that
\* return or raise (outcome); success is what execute returns.
Snakemake(line, outcome) ==
    LET checkRaises == outcome = "check raises"
        executeRaises == outcome = "execute raises"
        success == outcome = "True"
    IN
    IF NoData(workflow) \/ ~line.valid
    THEN \* line 76 raises, or parse_args (line 79) raises
         /\ last' = Plain("snakemake", TRUE, "none", FALSE, None,
                        <<>>, None)
         /\ UNCHANGED <<workflow, rules, cells, root, updated_rules, config,
                        files, sessions, paths, constructed, atReset>>
    ELSE IF ~GreedinessOK(line.greediness)
    THEN \* line 130: return False
         /\ last' = Obs("snakemake", TRUE, line.greediness, FALSE,
                        "bool", FALSE, None, <<>>, None)
         /\ UNCHANGED <<workflow, rules, cells, root, updated_rules, config,
                        files, sessions, paths, constructed, atReset>>
    ELSE LET g == GetWorkflow(workflow, sessions)
             held == IF g.made THEN <<>> ELSE rules
             checkCall == [op |-> "check", raised |-> checkRaises]
             executeCall ==
                 [op |-> "execute",
                  forcerun |-> ForceRun(line.forcerun, updated_rules),
                  raised |-> executeRaises,
                  success |-> success]
         IN  /\ Session(g)
             /\ rules' = held
             /\ IF checkRaises
                THEN \* line 139 raises
                     /\ last' = Obs("snakemake", TRUE, line.greediness,
                                    TRUE, "none", FALSE, None,
                                    ConstructCalls(g) \o <<checkCall>>,
                                    None)
                     /\ UNCHANGED <<updated_rules, atReset>>
                ELSE IF executeRaises
                THEN \* line 141 raises
                     /\ last' = Obs("snakemake", TRUE, line.greediness,
                                    TRUE, "none", FALSE, None,
                                    ConstructCalls(g)
                                        \o <<checkCall, executeCall>>,
                                    None)
                     /\ atReset' = {}
                     /\ UNCHANGED updated_rules
                ELSE \* lines 177-180
                     /\ updated_rules' = AfterExecute(success, updated_rules)
                     /\ atReset' = {}
                     /\ last' = Obs("snakemake", TRUE, line.greediness,
                                    FALSE, "bool", Returned(success), None,
                                    ConstructCalls(g)
                                        \o <<checkCall, executeCall>>,
                                    None)
             /\ UNCHANGED <<cells, config, files, paths>>

\* lines 182-210: %%sinclude cell.  The engine's include defines the first
\* `added` rules of the cell and then returns, or raises (includeRaises).
Sinclude(cell, added, includeRaises) ==
    LET g == GetWorkflow(workflow, sessions)
        held == IF g.made THEN <<>> ELSE rules
        path == paths + 1
        remaining == PopRules(held, cell.names)
        overwrite_first_rule == OverwriteFirstRule(held, remaining)
        defined == remaining \o SubSeq(cell.names, 1, added)
        includeCall ==
            [op |-> "include", path |-> path,
             overwrite_first_rule |-> overwrite_first_rule,
             held |-> remaining, raised |-> includeRaises]
    IN  /\ paths < MaxFiles
        /\ Len(updated_rules) + Len(cell.names) <= MaxUpdated
        /\ Session(g)
        /\ paths' = path
        \* lines 190-193: the file is written and its name recorded
        /\ cells' = Append(cells, path)
        /\ IF ~cell.parses
           THEN \* parse (line 29) raises at the first step of line 200
                /\ rules' = held
                /\ files' = files \cup {path}
                /\ last' = Plain("sinclude", TRUE, "none", FALSE,
                               None, ConstructCalls(g), path)
                /\ UNCHANGED updated_rules
           ELSE /\ added \in 0..CleanPrefix(remaining, cell.names)
                /\ (added < Len(cell.names)) => includeRaises
                /\ rules' = defined
                /\ updated_rules' = AppendUpdated(updated_rules, cell.names)
                \* line 208 is reached only when include returns
                /\ files' = IF includeRaises THEN files \cup {path} ELSE files
                /\ last' = Plain("sinclude", includeRaises,
                               IF includeRaises THEN "none" ELSE "str",
                               FALSE,
                               IF includeRaises THEN None
                                                ELSE Len(defined),
                               ConstructCalls(g) \o <<includeCall>>, path)
        /\ UNCHANGED <<config, atReset>>

\* lines 212-225: %%sconfig cell.  keys = the keys of the cell's mapping;
\* load_configfile returns it or raises (loadRaises).
Sconfig(keys, loadRaises) ==
    LET g == GetWorkflow(workflow, sessions)
        held == IF g.made THEN <<>> ELSE rules
        path == paths + 1
        loadCall == [op |-> "load_configfile", path |-> path,
                     raised |-> loadRaises]
    IN  /\ paths < MaxFiles
        /\ Session(g)
        /\ rules' = held
        /\ paths' = path
        /\ config' = IF loadRaises THEN config ELSE config \cup keys
        \* line 225 is reached only when load_configfile returns
        /\ files' = IF loadRaises THEN files \cup {path} ELSE files
        /\ last' = Plain("sconfig", loadRaises, "none", FALSE, None,
                       ConstructCalls(g) \o <<loadCall>>, path)
        /\ UNCHANGED <<cells, updated_rules, atReset>>

\* lines 227-231: %_workflow returns get_workflow()
InspectWorkflow ==
    LET g == GetWorkflow(workflow, sessions)
        held == IF g.made THEN <<>> ELSE rules
    IN  /\ Session(g)
        /\ rules' = held
        /\ last' = Plain("_workflow", FALSE, "workflow", FALSE,
                       g.workflow, ConstructCalls(g), None)
        /\ UNCHANGED <<cells, updated_rules, config, files, paths, atReset>>

\* lines 233-235: %_reset_workflow
Reset ==
    /\ sessions < MaxSessions
    /\ workflow' = ResetWorkflow(workflow)
    /\ rules' = IF workflow' = None THEN <<>> ELSE rules
    /\ constructed' = IF workflow' = None THEN 0 ELSE constructed
    /\ atReset' = Range(updated_rules)
    /\ last' = Plain("_reset_workflow", FALSE, "none", FALSE, None,
                   <<>>, None)
    /\ UNCHANGED <<cells, root, updated_rules, config, files, sessions,
                   paths>>

Next ==
    \/ \E line \in Lines, outcome \in Outcomes : Snakemake(line, outcome)
    \/ \E cell \in Cells, added \in 0..MaxCell, includeRaises \in BOOLEAN :
            Sinclude(cell, added, includeRaises)
    \/ \E keys \in SUBSET ConfigKeys, loadRaises \in BOOLEAN :
            Sconfig(keys, loadRaises)
    \/ InspectWorkflow
    \/ Reset

Spec == Init /\ [][Next]_vars

(* ====================================================================== *)
(*                               Claims                                    *)
(* ====================================================================== *)
\* positions in the last invocation's call list of the engine calls `op`
CallsOf(o, op) == {i \in DOMAIN o.calls : o.calls[i].op = op}

\* the range the engine accepts for --greediness, 0 to 1 inclusive (tenths)
InUnitRange(g) == (~g.given) \/ (0 <= g.value /\ g.value <= 10)

\* C1: %snakemake invoked while no session exists raises, for every
\* argument line (the line is not even parsed); it makes no engine call,
\* creates no session, and leaves updated_rules and tempfiles['cells']
\* unchanged.
C1_RunWithoutSessionRaises ==
    [][(workflow = None /\ last'.cmd = "snakemake") =>
          /\ last'.raised
          /\ ~last'.parsed
          /\ last'.calls = <<>>
          /\ workflow' = None
          /\ sessions' = sessions
          /\ updated_rules' = updated_rules
          /\ cells' = cells]_vars

\* a run that raised after a reset dropped a session, with names pending
C1_Witness ==
    /\ last.cmd = "snakemake"
    /\ last.raised
    /\ last.calls = <<>>
    /\ workflow = None
    /\ sessions >= 1
    /\ updated_rules # <<>>
    /\ cells # <<>>

\* C2 as stated: whenever %snakemake on an initialized session returns a
\* value, that value is the success indicator of an execute call made in the
\* same invocation.
C2_Original ==
    (last.cmd = "snakemake" /\ ~last.raised) =>
        \E i \in CallsOf(last, "execute") :
            /\ ~last.calls[i].raised
            /\ last.retKind = "bool"
            /\ last.retBool = last.calls[i].success

\* C2 amended: whenever %snakemake on an initialized session returns a
\* value, either the greediness given is within 0..1 (or none is given),
\* execute was called once and the value is its success indicator, or the
\* greediness given is outside 0..1, no engine call was made and the value
\* is False.
C2_ReturnsExecuteResult ==
    (last.cmd = "snakemake" /\ ~last.raised) =>
        /\ last.parsed
        /\ last.retKind = "bool"
        /\ IF InUnitRange(last.greediness)
           THEN /\ Cardinality(CallsOf(last, "execute")) = 1
                /\ \A i \in CallsOf(last, "execute") :
                      /\ ~last.calls[i].raised
                      /\ last.retBool = last.calls[i].success
           ELSE /\ last.calls = <<>>
                /\ last.retBool = FALSE

\* a run whose execute call returned failure, and that returned it
C2_Witness ==
    /\ last.cmd = "snakemake"
    /\ ~last.raised
    /\ \E i \in CallsOf(last, "execute") :
          /\ ~last.calls[i].success
          /\ ~last.calls[i].raised
    /\ last.retKind = "bool"
    /\ last.retBool = FALSE

\* C3: in every execute call made by %snakemake, the force-run set passed
\* contains every rule name redefined by %%sinclude since the last
\* successful execute (the names held by updated_rules when the run
\* starts), whatever the argument line.
C3_ForceRunHoldsRedefined ==
    [][last'.cmd = "snakemake" =>
         \A i \in CallsOf(last', "execute") :
            Range(updated_rules) \subseteq last'.calls[i].forcerun]_vars

\* C4: a session is constructed only by %%sinclude, %%sconfig or %_workflow
\* (never by %snakemake, never before the first of them), at most once
\* between two resets, and while a session exists every magic but the reset
\* keeps, and %_workflow returns, that same session.
C4_SessionLazyAndOnce ==
    /\ [](/\ constructed <= 1
          /\ (workflow # None) <=> (constructed = 1)
          /\ (workflow # None) => (workflow = sessions)
          /\ CallsOf(last, "Workflow") # {} =>
                last.cmd \in {"sinclude", "sconfig", "_workflow"}
          /\ last.cmd = "_workflow" =>
                (last.retKind = "workflow" /\ last.retNum = workflow))
    /\ [][/\ sessions' # sessions =>
                (/\ last'.cmd \in {"sinclude", "sconfig", "_workflow"}
                 /\ workflow = None
                 /\ sessions' = sessions + 1
                 /\ Cardinality(CallsOf(last', "Workflow")) = 1)
          /\ (workflow # None /\ last'.cmd # "_reset_workflow") =>
                (workflow' = workflow /\ sessions' = sessions)
          /\ last'.cmd = "snakemake" =>
                (workflow' = workflow /\ sessions' = sessions)]_vars

\* the second session, built after a reset, returned again by %_workflow
\* without a construction
C4_Witness ==
    /\ last.cmd = "_workflow"
    /\ last.calls = <<>>
    /\ sessions = 2
    /\ last.retNum = 2
    /\ constructed = 1

\* C5: every path in tempfiles['cells'] names a staged file that has not
\* yet been deleted.
C5_CellsListPendingOnly ==
    \A i \in DOMAIN cells : cells[i] \in files

\* C6 as stated: the overwrite_first_rule flag passed to include is true
\* iff the session holds no rules at the moment include is called.
C6_Original ==
    \A i \in CallsOf(last, "include") :
        last.calls[i].overwrite_first_rule <=> (last.calls[i].held = <<>>)

\* C6 amended: the overwrite_first_rule flag passed to include is true iff
\* the session held no rules when the %%sinclude started (a session just
\* constructed holds none), before the rules the text redefines were
\* removed; when the text redefines the only rules the session had, the
\* flag is false.
C6_OverwriteIffEmptyAtStart ==
    [][last'.cmd = "sinclude" =>
         \A i \in CallsOf(last', "include") :
            last'.calls[i].overwrite_first_rule
                <=> (workflow = None \/ rules = <<>>)]_vars

\* an include call made with the flag false on a session left with no
\* rules: the text redefined every rule the session had
C6_Witness ==
    /\ last.cmd = "sinclude"
    /\ \E i \in CallsOf(last, "include") :
          /\ ~last.calls[i].overwrite_first_rule
          /\ last.calls[i].held = <<>>

\* C7: %snakemake empties updated_rules exactly when its execute call
\* returns success; when execute returns failure or raises, or the run ends
\* without calling execute, updated_rules is left unchanged.
C7_ClearedOnSuccessOnly ==
    [][last'.cmd = "snakemake" =>
         IF \E i \in CallsOf(last', "execute") :
                ~last'.calls[i].raised /\ last'.calls[i].success
         THEN updated_rules' = <<>>
         ELSE updated_rules' = updated_rules]_vars

\* a run whose execute returned failure, names still pending after it
C7_Witness ==
    /\ last.cmd = "snakemake"
    /\ \E i \in CallsOf(last, "execute") :
          ~last.calls[i].raised /\ ~last.calls[i].success
    /\ updated_rules # <<>>

\* the sequence of engine operations of an invocation
EngineOps(o) ==
    [i \in 1..Len(o.calls) |-> o.calls[i].op]

C9_NoStagedFileOutlives ==
    last.staged # None => last.staged \notin files

\* C10, the frame of the reset: it leaves no session (and no rules), and
\* changes neither updated_rules nor tempfiles; a session constructed after
\* it holds no rules.
ResetFrame ==
    [][/\ last'.cmd = "_reset_workflow" =>
             (/\ workflow' = None
              /\ UNCHANGED <<updated_rules, cells, root, files>>)
       /\ (workflow = None /\ workflow' # None) =>
             IF last'.cmd = "sinclude"
             THEN \A i \in CallsOf(last', "include") :
                     last'.calls[i].held = <<>>
             ELSE rules' = <<>>]_vars

\* C10, its consequence: the rule names pending at a reset are passed as
\* force-run names to the first execute call made after it.
CarriedNamesForced ==
    [][last'.cmd = "snakemake" =>
         \A i \in CallsOf(last', "execute") :
            atReset \subseteq last'.calls[i].forcerun]_vars

\* C10: the reset only drops the session handle, and the names redefined
\* in the old session are force-run by the first execute of the new one.
C10_ResetOnlyDropsSession ==
    ResetFrame /\ CarriedNamesForced

====
